---- MODULE Spec2Model ----
(***************************************************************************)
(* A model of otel-loadgen.py: the span factory, the two trace topology    *)
(* builders, the batch assembler build_payload and the delivery loop of    *)
(* main().                                                                 *)
(*                                                                         *)
(* Randomness.  Python's random module is a deterministic generator with   *)
(* an unknown seed.  It is modelled as a cyclic tape of sample indexes,    *)
(* chosen freely in Init, and a read position rng that every draw          *)
(* advances.  A draw of random.randint(a, b) yields one of Samples evenly  *)
(* spaced points of a..b (both end points always among them);              *)
(* random.random() yields thousandths in 0..999.                           *)
(*                                                                         *)
(* Identifiers.  os.urandom is modelled as a collision-free stream: the    *)
(* n-th identifier drawn is <<width, n>>, the empty string is <<>>.        *)
(*                                                                         *)
(* Python values of dynamic type are tagged records [t, v].                *)
(***************************************************************************)
EXTENDS Integers, Sequences, FiniteSets, TLC

VARIABLES
    TRACES_PER_BATCH,     \* module globals read from the environment
    SERVICE_COUNT,
    ERROR_EVERY,
    ENABLE_INTERSERVICE,
    INTERSERVICE_RATIO,   \* in thousandths: 0.85 is 850
    RUNNING,
    BATCH_INDEX,
    tape,                 \* the random module's generator: its output tape
    rng,                  \* ... and the number of draws made so far
    entropy,              \* the number of identifiers os.urandom has produced
    pc,                   \* position of main(), or of the function under call
    payload,              \* main()'s local: the last payload built
    stats,                \* main()'s local: the last statistics built
    status,               \* outcome of the last send_batch
    built,                \* history: the number of build_payload calls so far
    args,                 \* arguments of a direct call of a core function
    result                \* what that call returned

cfgVars == <<TRACES_PER_BATCH, SERVICE_COUNT, ERROR_EVERY, ENABLE_INTERSERVICE,
             INTERSERVICE_RATIO>>

vars == <<TRACES_PER_BATCH, SERVICE_COUNT, ERROR_EVERY, ENABLE_INTERSERVICE,
          INTERSERVICE_RATIO, RUNNING, BATCH_INDEX, tape, rng, entropy, pc,
          payload, stats, status, built, args, result>>

----------------------------------------------------------------------------
(* Bounds of the model *)

Samples == 2
TapeLen == 7
PayloadTapeLen == 2
MaxBatches == 2

(* Program constants *)

NS_PER_MS == 1000000
DEFAULT_TRACES_PER_BATCH == 8
DEFAULT_SERVICE_COUNT == 3
DEFAULT_ERROR_EVERY == 7
DEFAULT_INTERSERVICE_RATIO == 850
PUBLISH_RATIO == 650
SERVICE_PREFIX == "loadgen-service"

----------------------------------------------------------------------------
(* Python built-ins *)

Min(a, b) == IF a <= b THEN a ELSE b

Digits == <<"0", "1", "2", "3", "4", "5", "6", "7", "8", "9">>

RECURSIVE StrNat(_)
StrNat(n) == IF n < 10 THEN <<Digits[n + 1]>>
             ELSE Append(StrNat(n \div 10), Digits[(n % 10) + 1])

\* str(n) for an int: its decimal digits, a leading "-" when negative
Str(n) == IF n < 0 THEN <<"-">> \o StrNat(0 - n) ELSE StrNat(n)

DigitValue(c) == (CHOOSE i \in 1..10 : Digits[i] = c) - 1

RECURSIVE IntNat(_)
IntNat(s) == IF Len(s) = 0 THEN 0
             ELSE 10 * IntNat(SubSeq(s, 1, Len(s) - 1)) + DigitValue(s[Len(s)])

\* int(s) for a decimal string
ParseInt(s) == IF Len(s) > 0 /\ s[1] = "-" THEN 0 - IntNat(Tail(s)) ELSE IntNat(s)

PyBool(b) == [t |-> "bool", v |-> b]
PyInt(n) == [t |-> "int", v |-> n]
PyFloat(x) == [t |-> "float", v |-> x]
PyStr(s) == [t |-> "str", v |-> s]

(* The random module *)

Sample(p) == tape[(p % Len(tape)) + 1]

\* random.randint(a, b), the draw at position p
RandInt(p, a, b) == a + ((b - a) * Sample(p)) \div (Samples - 1)

\* random.random() in thousandths, the draw at position p
Random(p) == RandInt(p, 0, 999)

\* random.choice(seq), the draw at position p
RandChoice(p, seq) == seq[RandInt(p, 1, Len(seq))]

(* os.urandom(n).hex() *)

UrandomHex(nbytes, e) == <<nbytes, e>>

new_span_id(e) == UrandomHex(8, e)

----------------------------------------------------------------------------
(* Attribute builder and span factory *)

otlp_value(value) ==
    IF value.t = "bool" THEN [boolValue |-> value.v]
    ELSE IF value.t = "int" THEN [intValue |-> Str(value.v)]
    ELSE IF value.t = "float" THEN [doubleValue |-> value.v]
    ELSE [stringValue |-> value.v]

otlp_attr(key, value) == [key |-> key, value |-> otlp_value(value)]

\* mutant of ensure_end: the comparison is strict, an end equal to the start
\* is kept
ensure_end_strict(start_ns, end_ns, minimum_duration_ms) ==
    LET minimum_duration_ns == minimum_duration_ms * NS_PER_MS
    IN  IF end_ns < start_ns THEN start_ns + minimum_duration_ns ELSE end_ns

ensure_end(start_ns, end_ns, minimum_duration_ms) ==
    LET minimum_duration_ns == minimum_duration_ms * NS_PER_MS
    IN  IF end_ns <= start_ns THEN start_ns + minimum_duration_ns ELSE end_ns

\* mutant of with_parent: parentSpanId is set whatever the parent is
with_parent_always(p, parent_id) == ("parentSpanId" :> parent_id) @@ p

\* lines 120-121: the payload with parentSpanId set for a non-empty parent
with_parent(p, parent_id) ==
    IF parent_id # <<>> THEN ("parentSpanId" :> parent_id) @@ p ELSE p

\* mutant of with_error: the attribute is appended, the status is not set
with_error_no_status(p, error) ==
    IF error
    THEN [p EXCEPT !.attributes = Append(@, [key |-> "error",
                                             value |-> [stringValue |-> "true"]])]
    ELSE p

\* lines 123-125: the payload with the error status and attribute
with_error(p, error) ==
    IF error
    THEN [("status" :> [code |-> "STATUS_CODE_ERROR"]) @@ p EXCEPT
            !.attributes = Append(@, [key |-> "error",
                                      value |-> [stringValue |-> "true"]])]
    ELSE p

span(trace_id, span_id, name, start_ns, end_ns, kind, parent_id, attrs, error) ==
    LET attributes == <<otlp_attr("loadgen.marker", PyBool(TRUE)),
                        otlp_attr("loadgen.batch", PyInt(BATCH_INDEX))>> \o attrs
        p == [traceId |-> trace_id,
              spanId |-> span_id,
              name |-> name,
              kind |-> kind,
              startTimeUnixNano |-> Str(start_ns),
              endTimeUnixNano |-> Str(ensure_end(start_ns, end_ns, 1)),
              attributes |-> attributes]
    IN  with_error(with_parent(p, parent_id), error)

----------------------------------------------------------------------------
(* Topology builders.  p is the generator's position and e the number of  *)
(* identifiers drawn when the function is entered; the result carries the *)
(* service -> spans map (in insertion order) and both counters on return. *)

service(name, spans) == [service |-> name, spans |-> spans]

\* mutant of single_root_end: the duration is added in ns instead of ms
single_root_end_unscaled(trace_start, p) == trace_start + RandInt(p, 30, 120)

\* lines 189-190
single_root_end(trace_start, p) == trace_start + RandInt(p, 30, 120) * NS_PER_MS

build_single_service_trace(trace_id, service_name, trace_start, trace_error, p, e) ==
    LET root_span_id == new_span_id(e)
        root_end == single_root_end(trace_start, p)
        db_start == trace_start + RandInt(p + 1, 5, 12) * NS_PER_MS
        db_end == db_start + RandInt(p + 2, 4, 14) * NS_PER_MS
        cache_start == trace_start + RandInt(p + 3, 9, 16) * NS_PER_MS
        cache_end == cache_start + RandInt(p + 4, 2, 10) * NS_PER_MS
        spans == <<
            span(trace_id, root_span_id, "GET /api/loadgen", trace_start, root_end,
                 2, <<>>,
                 <<otlp_attr("http.method", PyStr("GET")),
                   otlp_attr("http.route", PyStr("/api/loadgen")),
                   otlp_attr("loadgen.trace.profile", PyStr("single-service"))>>,
                 trace_error),
            span(trace_id, new_span_id(e + 1), "db.query", db_start, db_end,
                 1, root_span_id,
                 <<otlp_attr("db.system", PyStr("postgresql")),
                   otlp_attr("db.operation", PyStr("SELECT"))>>,
                 trace_error),
            span(trace_id, new_span_id(e + 2), "cache.lookup", cache_start, cache_end,
                 1, root_span_id,
                 <<otlp_attr("cache.system", PyStr("redis")),
                   otlp_attr("cache.hit",
                             PyBool(RandChoice(p + 5, <<TRUE, FALSE>>)))>>,
                 FALSE) >>
    IN  [services |-> <<service(service_name, spans)>>,
         rng |-> p + 6,
         entropy |-> e + 3]

\* mutant of edge_to_checkout_end: the end is not capped by the root's end
edge_to_checkout_end_uncapped(edge_to_checkout_start, root_end, p) ==
    ensure_end(edge_to_checkout_start,
               edge_to_checkout_start + RandInt(p, 50, 140) * NS_PER_MS,
               8)

\* lines 266-268
edge_to_checkout_end(edge_to_checkout_start, root_end, p) ==
    ensure_end(edge_to_checkout_start,
               Min(edge_to_checkout_start + RandInt(p, 50, 140) * NS_PER_MS,
                   root_end - 15 * NS_PER_MS),
               8)

\* mutant of checkout_to_inventory_start: the offset is added in ns instead
\* of ms
checkout_to_inventory_start_unscaled(checkout_server_start, p) ==
    checkout_server_start + RandInt(p, 12, 22)

\* lines 409-411
checkout_to_inventory_start(checkout_server_start, p) ==
    checkout_server_start + RandInt(p, 12, 22) * NS_PER_MS

\* lines 467-520: the spans of the publish branch, taken when random() < 0.65
publish_branch(trace_id, checkout_server_id, checkout_server_start, p, e) ==
    LET producer_span_id == new_span_id(e)
        producer_start == checkout_server_start + RandInt(p, 28, 44) * NS_PER_MS
        producer_end == producer_start + RandInt(p + 1, 3, 9) * NS_PER_MS
        worker_consume_id == new_span_id(e + 1)
        worker_start == producer_start + RandInt(p + 2, 2, 7) * NS_PER_MS
        worker_end == worker_start + RandInt(p + 3, 12, 40) * NS_PER_MS
        worker_db_start == worker_start + RandInt(p + 4, 2, 6) * NS_PER_MS
        worker_db_end == worker_db_start + RandInt(p + 5, 5, 13) * NS_PER_MS
    IN  [checkout |-> <<
            span(trace_id, producer_span_id, "order.events publish",
                 producer_start, producer_end, 4, checkout_server_id,
                 <<otlp_attr("messaging.system", PyStr("kafka")),
                   otlp_attr("messaging.destination", PyStr("order-events"))>>,
                 FALSE) >>,
         worker |-> <<
            span(trace_id, worker_consume_id, "order.events consume",
                 worker_start, worker_end, 5, producer_span_id,
                 <<otlp_attr("messaging.system", PyStr("kafka")),
                   otlp_attr("messaging.destination", PyStr("order-events"))>>,
                 FALSE),
            span(trace_id, new_span_id(e + 2), "fulfillment DB update",
                 worker_db_start, worker_db_end, 1, worker_consume_id,
                 <<otlp_attr("db.system", PyStr("postgresql")),
                   otlp_attr("db.operation", PyStr("UPDATE"))>>,
                 FALSE) >>]

build_interservice_trace(trace_id, edge_service, trace_start, trace_error, p, e) ==
    LET checkout_service == <<SERVICE_PREFIX, "checkout">>
        payments_service == <<SERVICE_PREFIX, "payments">>
        inventory_service == <<SERVICE_PREFIX, "inventory">>
        worker_service == <<SERVICE_PREFIX, "worker">>

        root_span_id == new_span_id(e)
        root_duration == RandInt(p, 120, 280) * NS_PER_MS
        root_end == trace_start + root_duration

        edge_to_checkout_id == new_span_id(e + 1)
        edge_to_checkout_start == trace_start + RandInt(p + 1, 2, 8) * NS_PER_MS
        e2c_end == edge_to_checkout_end(edge_to_checkout_start, root_end, p + 2)

        checkout_server_id == new_span_id(e + 2)
        checkout_server_start ==
            edge_to_checkout_start + RandInt(p + 3, 1, 3) * NS_PER_MS
        checkout_server_end ==
            ensure_end(checkout_server_start,
                       e2c_end - RandInt(p + 4, 2, 6) * NS_PER_MS, 10)

        root == span(trace_id, root_span_id, "GET /api/checkout", trace_start,
                     root_end, 2, <<>>,
                     <<otlp_attr("http.method", PyStr("GET")),
                       otlp_attr("http.route", PyStr("/api/checkout")),
                       otlp_attr("loadgen.trace.profile", PyStr("inter-service"))>>,
                     trace_error)
        checkout_rpc ==
            span(trace_id, edge_to_checkout_id, "checkout RPC",
                 edge_to_checkout_start, e2c_end, 3, root_span_id,
                 <<otlp_attr("rpc.system", PyStr("http")),
                   otlp_attr("rpc.service", PyStr(checkout_service)),
                   otlp_attr("peer.service", PyStr(checkout_service))>>,
                 trace_error)
        checkout_server ==
            span(trace_id, checkout_server_id, "POST /checkout",
                 checkout_server_start, checkout_server_end, 2,
                 edge_to_checkout_id,
                 <<otlp_attr("http.method", PyStr("POST")),
                   otlp_attr("http.route", PyStr("/checkout")),
                   otlp_attr("upstream.service", PyStr(edge_service))>>,
                 trace_error)

        checkout_db_start == checkout_server_start + RandInt(p + 5, 3, 9) * NS_PER_MS
        checkout_db_end == checkout_db_start + RandInt(p + 6, 8, 18) * NS_PER_MS
        checkout_db ==
            span(trace_id, new_span_id(e + 3), "orders DB query",
                 checkout_db_start, checkout_db_end, 1, checkout_server_id,
                 <<otlp_attr("db.system", PyStr("postgresql")),
                   otlp_attr("db.operation", PyStr("SELECT"))>>,
                 FALSE)

        checkout_to_payments_id == new_span_id(e + 4)
        checkout_to_payments_start ==
            checkout_server_start + RandInt(p + 7, 8, 18) * NS_PER_MS
        checkout_to_payments_end ==
            checkout_to_payments_start + RandInt(p + 8, 20, 60) * NS_PER_MS
        payments_server_id == new_span_id(e + 5)
        payments_server_start ==
            checkout_to_payments_start + RandInt(p + 9, 1, 4) * NS_PER_MS
        payments_server_end ==
            ensure_end(payments_server_start,
                       checkout_to_payments_end - RandInt(p + 10, 1, 4) * NS_PER_MS,
                       6)
        payments_rpc ==
            span(trace_id, checkout_to_payments_id, "payments RPC",
                 checkout_to_payments_start, checkout_to_payments_end, 3,
                 checkout_server_id,
                 <<otlp_attr("peer.service", PyStr(payments_service))>>,
                 trace_error)
        payments_server ==
            span(trace_id, payments_server_id, "POST /payments/charge",
                 payments_server_start, payments_server_end, 2,
                 checkout_to_payments_id,
                 <<otlp_attr("http.method", PyStr("POST")),
                   otlp_attr("http.route", PyStr("/payments/charge"))>>,
                 trace_error)
        payments_db_start == payments_server_start + RandInt(p + 11, 2, 8) * NS_PER_MS
        payments_db_end == payments_db_start + RandInt(p + 12, 6, 16) * NS_PER_MS
        payments_db ==
            span(trace_id, new_span_id(e + 6), "payments DB write",
                 payments_db_start, payments_db_end, 1, payments_server_id,
                 <<otlp_attr("db.system", PyStr("postgresql")),
                   otlp_attr("db.operation", PyStr("INSERT"))>>,
                 trace_error)

        checkout_to_inventory_id == new_span_id(e + 7)
        c2i_start == checkout_to_inventory_start(checkout_server_start, p + 13)
        checkout_to_inventory_end == c2i_start + RandInt(p + 14, 15, 50) * NS_PER_MS
        inventory_server_id == new_span_id(e + 8)
        inventory_server_start == c2i_start + RandInt(p + 15, 1, 3) * NS_PER_MS
        inventory_server_end ==
            ensure_end(inventory_server_start,
                       checkout_to_inventory_end - RandInt(p + 16, 1, 3) * NS_PER_MS,
                       6)
        inventory_rpc ==
            span(trace_id, checkout_to_inventory_id, "inventory RPC",
                 c2i_start, checkout_to_inventory_end, 3, checkout_server_id,
                 <<otlp_attr("peer.service", PyStr(inventory_service))>>,
                 FALSE)
        inventory_server ==
            span(trace_id, inventory_server_id, "GET /inventory/reserve",
                 inventory_server_start, inventory_server_end, 2,
                 checkout_to_inventory_id,
                 <<otlp_attr("http.method", PyStr("GET")),
                   otlp_attr("http.route", PyStr("/inventory/reserve"))>>,
                 FALSE)
        cache_start == inventory_server_start + RandInt(p + 17, 2, 6) * NS_PER_MS
        cache_end == cache_start + RandInt(p + 18, 3, 10) * NS_PER_MS
        inventory_cache ==
            span(trace_id, new_span_id(e + 9), "inventory cache lookup",
                 cache_start, cache_end, 1, inventory_server_id,
                 <<otlp_attr("cache.system", PyStr("redis")),
                   otlp_attr("cache.hit",
                             PyBool(RandChoice(p + 19, <<TRUE, FALSE>>)))>>,
                 FALSE)

        publish == Random(p + 20) < PUBLISH_RATIO
        branch == publish_branch(trace_id, checkout_server_id,
                                 checkout_server_start, p + 21, e + 10)
        edge_spans == <<root, checkout_rpc>>
        checkout_spans == <<checkout_server, checkout_db, payments_rpc,
                            inventory_rpc>>
        payments_spans == <<payments_server, payments_db>>
        inventory_spans == <<inventory_server, inventory_cache>>
    IN  IF publish
        THEN [services |-> <<service(edge_service, edge_spans),
                             service(checkout_service,
                                     checkout_spans \o branch.checkout),
                             service(payments_service, payments_spans),
                             service(inventory_service, inventory_spans),
                             service(worker_service, branch.worker)>>,
              rng |-> p + 27,
              entropy |-> e + 13]
        ELSE [services |-> <<service(edge_service, edge_spans),
                             service(checkout_service, checkout_spans),
                             service(payments_service, payments_spans),
                             service(inventory_service, inventory_spans)>>,
              rng |-> p + 21,
              entropy |-> e + 10]

----------------------------------------------------------------------------
(* Trace batch assembler *)

\* mutant of trace_error_flag: the batch index is left out
trace_error_flag_by_index(idx) == idx % ERROR_EVERY = 0

\* line 142
trace_error_flag(idx) == (BATCH_INDEX + idx) % ERROR_EVERY = 0

\* mutant of use_interservice: the comparison is reversed
use_interservice_reversed(r) == ENABLE_INTERSERVICE /\ r > INTERSERVICE_RATIO

\* line 144, r the value of random.random()
use_interservice(r) == ENABLE_INTERSERVICE /\ r < INTERSERVICE_RATIO

\* lines 138-140
edge_service_name(idx) ==
    <<SERVICE_PREFIX, "edge", Str(((BATCH_INDEX + idx) % SERVICE_COUNT) + 1)>>

\* lines 158-172
resource_entry(service_name, spans) ==
    [resource |->
        [attributes |-> <<otlp_attr("service.name", PyStr(service_name)),
                          otlp_attr("service.namespace", PyStr(SERVICE_PREFIX)),
                          otlp_attr("deployment.environment", PyStr("load-test"))>>],
     scopeSpans |->
        <<[scope |-> [name |-> "dash-otel-loadgen", version |-> "2.0.0"],
           spans |-> spans]>>]

RECURSIVE SumLen(_)
SumLen(trace_services) ==
    IF Len(trace_services) = 0 THEN 0
    ELSE Len(Head(trace_services).spans) + SumLen(Tail(trace_services))

\* lines 137-173: one iteration of the loop; acc holds the locals and the two
\* counters of the generators
payload_step(idx, now, acc) ==
    LET trace_id == UrandomHex(16, acc.entropy)
        edge_service == edge_service_name(idx)
        trace_start == now + idx * 4 * NS_PER_MS
        trace_error == trace_error_flag(idx)
        \* "and" draws random.random() only when the flag is set
        drawn == IF ENABLE_INTERSERVICE THEN 1 ELSE 0
        inter == use_interservice(Random(acc.rng))
        built_trace ==
            IF inter
            THEN build_interservice_trace(trace_id, edge_service, trace_start,
                                          trace_error, acc.rng + drawn,
                                          acc.entropy + 1)
            ELSE build_single_service_trace(trace_id, edge_service, trace_start,
                                            trace_error, acc.rng + drawn,
                                            acc.entropy + 1)
    IN  CHOOSE next \in
            {[resource_spans |->
                 acc.resource_spans \o
                 [i \in 1..Len(t.services) |->
                     resource_entry(t.services[i].service, t.services[i].spans)],
              total_spans |-> acc.total_spans + SumLen(t.services),
              interservice_trace_count |->
                 acc.interservice_trace_count + (IF inter THEN 1 ELSE 0),
              rng |-> t.rng,
              entropy |-> t.entropy] : t \in {built_trace}} : TRUE

\* lines 132-173: the locals after the iterations 0 .. n-1 of the loop
RECURSIVE payload_loop(_, _)
payload_loop(n, now) ==
    IF n = 0
    THEN [resource_spans |-> <<>>, total_spans |-> 0,
          interservice_trace_count |-> 0, rng |-> rng, entropy |-> entropy]
    ELSE CHOOSE next \in
            {payload_step(n - 1, now, acc) : acc \in {payload_loop(n - 1, now)}} :
            TRUE

build_payload(now) ==
    CHOOSE ret \in
        {[payload |-> [resourceSpans |-> acc.resource_spans],
          stats |-> [span_count |-> acc.total_spans,
                     interservice_traces |-> acc.interservice_trace_count,
                     resource_span_count |-> Len(acc.resource_spans)],
          rng |-> acc.rng,
          entropy |-> acc.entropy] :
            acc \in {payload_loop(TRACES_PER_BATCH, now)}} : TRUE

----------------------------------------------------------------------------
(* The delivery loop of main() *)

NoPayload == [resourceSpans |-> <<>>]
NoStats == [span_count |-> 0, interservice_traces |-> 0, resource_span_count |-> 0]
NoArgs == [fn |-> "none"]

\* time.time_ns() as seen by build_payload
NowValues == {0, 1500 * NS_PER_MS + 123}

\* what send_batch can do: return a 2xx status, raise HTTPError, raise another
\* exception
SendOutcomes == {"2xx", "HTTPError", "Exception"}

TracesPerBatchValues == {1, DEFAULT_TRACES_PER_BATCH}
ServiceCountValues == {DEFAULT_SERVICE_COUNT}
ErrorEveryValues == {2, DEFAULT_ERROR_EVERY}
InterserviceRatioValues == {0, DEFAULT_INTERSERVICE_RATIO, 1000}

Tapes(n) == [1..n -> 0..(Samples - 1)]

Init ==
    /\ TRACES_PER_BATCH \in TracesPerBatchValues
    /\ SERVICE_COUNT \in ServiceCountValues
    /\ ERROR_EVERY \in ErrorEveryValues
    /\ ENABLE_INTERSERVICE \in BOOLEAN
    /\ INTERSERVICE_RATIO \in InterserviceRatioValues
    /\ RUNNING = TRUE
    /\ BATCH_INDEX = 0
    /\ tape \in Tapes(PayloadTapeLen)
    /\ rng = 0
    /\ entropy = 0
    /\ pc = "loop"
    /\ payload = NoPayload
    /\ stats = NoStats
    /\ status = "none"
    /\ built = 0
    /\ args = NoArgs
    /\ result = <<>>

\* the signal handler: it may run between any two steps of main()
handle_stop ==
    /\ pc # "done"
    /\ RUNNING
    /\ RUNNING' = FALSE
    /\ UNCHANGED <<cfgVars, BATCH_INDEX, tape, rng, entropy, pc, payload, stats,
                   status, built, args, result>>

\* line 553 with RUNNING true, and line 554
Build ==
    /\ pc = "loop"
    /\ RUNNING
    /\ built < MaxBatches
    /\ \E now \in NowValues :
         \E b \in {build_payload(now)} :
             /\ payload' = b.payload
             /\ stats' = b.stats
             /\ rng' = b.rng
             /\ entropy' = b.entropy
    /\ built' = built + 1
    /\ pc' = "send"
    /\ UNCHANGED <<cfgVars, RUNNING, BATCH_INDEX, tape, status, args, result>>

\* line 553 with RUNNING false: the loop ends and main() returns
Exit ==
    /\ pc = "loop"
    /\ ~RUNNING
    /\ pc' = "done"
    /\ UNCHANGED <<cfgVars, RUNNING, BATCH_INDEX, tape, rng, entropy, payload,
                   stats, status, built, args, result>>

\* mutant of after_send: only HTTPError is caught, another exception ends main()
after_send_uncaught(outcome) ==
    IF outcome = "Exception" THEN "done" ELSE "increment"

\* lines 555-569: where main() goes on after send_batch ended with outcome;
\* every except clause falls through to line 571
after_send(outcome) == "increment"

\* lines 555-569
Send ==
    /\ pc = "send"
    /\ \E outcome \in SendOutcomes :
         /\ status' = outcome
         /\ pc' = after_send(outcome)
    /\ UNCHANGED <<cfgVars, RUNNING, BATCH_INDEX, tape, rng, entropy, payload,
                   stats, built, args, result>>

\* lines 571-572
Increment ==
    /\ pc = "increment"
    /\ BATCH_INDEX' = BATCH_INDEX + 1
    /\ pc' = "loop"
    /\ UNCHANGED <<cfgVars, RUNNING, tape, rng, entropy, payload, stats, status,
                   built, args, result>>

Next == handle_stop \/ Build \/ Exit \/ Send \/ Increment

Spec == Init /\ [][Next]_vars

----------------------------------------------------------------------------
(* Direct calls of the core functions: span(), build_single_service_trace() *)
(* and build_interservice_trace(), with arguments drawn in CoreInit.        *)

SpanTimes == {0, 5 * NS_PER_MS - 1, 5 * NS_PER_MS, 5 * NS_PER_MS + 1,
              1500 * NS_PER_MS + 123}

SpanArgs ==
    [fn : {"span"},
     start_ns : SpanTimes,
     end_ns : SpanTimes,
     kind : 1..5,
     parent_id : {<<>>, UrandomHex(8, 0)},
     attrs : {<<>>, <<otlp_attr("db.rows", PyInt(42)),
                      otlp_attr("cache.hit", PyBool(FALSE))>>},
     error : BOOLEAN]

TraceArgs ==
    [fn : {"single", "inter"},
     start_ns : NowValues,
     end_ns : {0},
     kind : {1},
     parent_id : {<<>>},
     attrs : {<<>>},
     error : BOOLEAN]

CoreInit ==
    /\ TRACES_PER_BATCH = DEFAULT_TRACES_PER_BATCH
    /\ SERVICE_COUNT = DEFAULT_SERVICE_COUNT
    /\ ERROR_EVERY = DEFAULT_ERROR_EVERY
    /\ ENABLE_INTERSERVICE = TRUE
    /\ INTERSERVICE_RATIO = DEFAULT_INTERSERVICE_RATIO
    /\ RUNNING = TRUE
    /\ BATCH_INDEX \in {0, 1}
    /\ \/ args \in SpanArgs /\ tape = [i \in 1..TapeLen |-> 0]
       \/ args \in TraceArgs /\ tape \in Tapes(TapeLen)
    /\ rng = 0
    /\ entropy = 1
    /\ pc = "call"
    /\ payload = NoPayload
    /\ stats = NoStats
    /\ status = "none"
    /\ built = 0
    /\ result = <<>>

CallSpan ==
    /\ pc = "call"
    /\ args.fn = "span"
    /\ result' = span(UrandomHex(16, 0), UrandomHex(8, entropy), "work",
                      args.start_ns, args.end_ns, args.kind, args.parent_id,
                      args.attrs, args.error)
    /\ entropy' = entropy + 1
    /\ pc' = "returned"
    /\ UNCHANGED <<cfgVars, RUNNING, BATCH_INDEX, tape, rng, payload, stats,
                   status, built, args>>

CallSingle ==
    /\ pc = "call"
    /\ args.fn = "single"
    /\ \E t \in {build_single_service_trace(UrandomHex(16, 0), edge_service_name(0),
                                            args.start_ns, args.error, rng,
                                            entropy)} :
         /\ result' = t.services
         /\ rng' = t.rng
         /\ entropy' = t.entropy
    /\ pc' = "returned"
    /\ UNCHANGED <<cfgVars, RUNNING, BATCH_INDEX, tape, payload, stats, status,
                   built, args>>

CallInter ==
    /\ pc = "call"
    /\ args.fn = "inter"
    /\ \E t \in {build_interservice_trace(UrandomHex(16, 0), edge_service_name(0),
                                          args.start_ns, args.error, rng,
                                          entropy)} :
         /\ result' = t.services
         /\ rng' = t.rng
         /\ entropy' = t.entropy
    /\ pc' = "returned"
    /\ UNCHANGED <<cfgVars, RUNNING, BATCH_INDEX, tape, payload, stats, status,
                   built, args>>

CoreNext == CallSpan \/ CallSingle \/ CallInter

SpecCore == CoreInit /\ [][CoreNext]_vars

----------------------------------------------------------------------------
(* Reading the generated spans *)

StartOf(s) == ParseInt(s.startTimeUnixNano)
EndOf(s) == ParseInt(s.endTimeUnixNano)
HasParent(s) == "parentSpanId" \in DOMAIN s
HasErrorStatus(s) == "status" \in DOMAIN s /\ s.status.code = "STATUS_CODE_ERROR"
HasAttr(s, key) == \E i \in 1..Len(s.attributes) : s.attributes[i].key = key

RECURSIVE FlattenSpans(_)
FlattenSpans(services) ==
    IF Len(services) = 0 THEN <<>>
    ELSE Head(services).spans \o FlattenSpans(Tail(services))

ServiceNames(services) == {services[i].service : i \in 1..Len(services)}

\* the spans a finished direct call returned, in the order of the result
ResultSpans ==
    IF pc # "returned" THEN <<>>
    ELSE IF args.fn = "span" THEN <<result>>
    ELSE FlattenSpans(result)

Returned(fn) == pc = "returned" /\ args.fn = fn

SpanNamed(spans, name) == CHOOSE i \in 1..Len(spans) : spans[i].name = name

\* the position in spans of the span that the span at position j names as parent
ParentIndex(spans, j) ==
    CHOOSE i \in 1..Len(spans) : spans[i].spanId = spans[j].parentSpanId

Within(child, parent) ==
    StartOf(child) >= StartOf(parent) /\ EndOf(child) <= EndOf(parent)

----------------------------------------------------------------------------
(* Claims about the core functions, checked under SpecCore *)

\* C1: every span that span() emits, called directly with any start and end
\* (also end <= start) or from either topology builder, has
\* endTimeUnixNano > startTimeUnixNano.
C1_EndAfterStart ==
    \A i \in 1..Len(ResultSpans) : EndOf(ResultSpans[i]) > StartOf(ResultSpans[i])

\* span() was called with an end that does not exceed the start, and returned
C1_Witness ==
    /\ Returned("span")
    /\ args.end_ns <= args.start_ns
    /\ EndOf(result) = args.start_ns + NS_PER_MS

\* C2 as claimed: every child span of an inter-service trace lies within the
\* interval of its parent span.
C2_ChildWithinParent ==
    Returned("inter") =>
        \A j \in 1..Len(ResultSpans) :
            HasParent(ResultSpans[j]) =>
                Within(ResultSpans[j], ResultSpans[ParentIndex(ResultSpans, j)])

\* the children whose end the code keeps at or before their parent's end
EndBounded == {"checkout RPC", "POST /checkout", "orders DB query",
               "POST /payments/charge", "GET /inventory/reserve"}

\* C2 as amended: every child span of an inter-service trace starts at or after
\* its parent's start; the checkout RPC, checkout server, orders DB query,
\* payments server and inventory server spans also end at or before their
\* parent's end.
C2_ChildNesting ==
    Returned("inter") =>
        \A j \in 1..Len(ResultSpans) :
            HasParent(ResultSpans[j]) =>
                LET child == ResultSpans[j]
                    parent == ResultSpans[ParentIndex(ResultSpans, j)]
                IN  /\ StartOf(child) >= StartOf(parent)
                    /\ child.name \in EndBounded => EndOf(child) <= EndOf(parent)

\* an inter-service trace with the worker branch in which the payments RPC
\* outlasts the checkout server span and the consume span outlasts the publish
\* span
C2_Witness ==
    /\ Returned("inter")
    /\ Len(result) = 5
    /\ EndOf(ResultSpans[SpanNamed(ResultSpans, "payments RPC")])
         > EndOf(ResultSpans[SpanNamed(ResultSpans, "POST /checkout")])
    /\ EndOf(ResultSpans[SpanNamed(ResultSpans, "order.events consume")])
         > EndOf(ResultSpans[SpanNamed(ResultSpans, "order.events publish")])

\* C3: a trace of either builder has exactly one span without parentSpanId, and
\* every other span names as parent a span of the same trace that comes earlier
\* in the trace's span sequence.
C3_ParentsEarlier ==
    (Returned("single") \/ Returned("inter")) =>
        /\ Cardinality({j \in 1..Len(ResultSpans) : ~HasParent(ResultSpans[j])}) = 1
        /\ \A j \in 1..Len(ResultSpans) :
             HasParent(ResultSpans[j]) =>
                \E i \in 1..(j - 1) :
                    /\ ResultSpans[i].spanId = ResultSpans[j].parentSpanId
                    /\ ResultSpans[i].traceId = ResultSpans[j].traceId

\* an inter-service trace with all thirteen spans was returned
C3_Witness == Returned("inter") /\ Len(ResultSpans) = 13

\* C6 as claimed: with error = true the span has the error status and its last
\* attribute is "error" with the boolean representation of the attribute
\* builder; with error = false it has neither a status nor an "error" attribute.
C6_ErrorAttributeIsBoolean ==
    Returned("span") =>
        IF args.error
        THEN /\ HasErrorStatus(result)
             /\ result.attributes[Len(result.attributes)]
                   = otlp_attr("error", PyBool(TRUE))
        ELSE /\ "status" \notin DOMAIN result
             /\ ~HasAttr(result, "error")

ErrorNames(spans) == {spans[i].name : i \in {j \in 1..Len(spans) : HasErrorStatus(spans[j])}}

SingleErrorNames == {"GET /api/loadgen", "db.query"}
InterErrorNames == {"GET /api/checkout", "checkout RPC", "POST /checkout",
                    "payments RPC", "POST /payments/charge", "payments DB write"}

\* C7: the spans of a trace that carry the error status are fixed by the trace's
\* error flag: none when it is false; the root and db.query spans of a
\* single-service trace, and the root, checkout RPC, checkout server, payments
\* RPC, payments server and payments DB write spans of an inter-service trace
\* when it is true.
C7_ErrorSpans ==
    /\ Returned("single") =>
         ErrorNames(ResultSpans) = IF args.error THEN SingleErrorNames ELSE {}
    /\ Returned("inter") =>
         ErrorNames(ResultSpans) = IF args.error THEN InterErrorNames ELSE {}

\* an error trace of the inter-service topology with the worker branch
C7_Witness ==
    /\ Returned("inter")
    /\ args.error
    /\ Len(ResultSpans) = 13
    /\ ~HasErrorStatus(ResultSpans[SpanNamed(ResultSpans, "fulfillment DB update")])

PaymentsRpc == ResultSpans[SpanNamed(ResultSpans, "payments RPC")]
InventoryRpc == ResultSpans[SpanNamed(ResultSpans, "inventory RPC")]

\* C8 as claimed: the payments RPC and inventory RPC spans do not overlap and
\* the payments RPC starts strictly earlier.
C8_RpcsDisjointAndOrdered ==
    Returned("inter") =>
        /\ StartOf(PaymentsRpc) < StartOf(InventoryRpc)
        /\ \/ EndOf(PaymentsRpc) <= StartOf(InventoryRpc)
           \/ EndOf(InventoryRpc) <= StartOf(PaymentsRpc)

\* C8 as amended: the payments RPC starts no later than 6 ms after the
\* inventory RPC starts, and the two spans always overlap: each starts before
\* the other ends.
C8_RpcsOverlap ==
    Returned("inter") =>
        /\ StartOf(PaymentsRpc) <= StartOf(InventoryRpc) + 6 * NS_PER_MS
        /\ StartOf(InventoryRpc) < EndOf(PaymentsRpc)
        /\ StartOf(PaymentsRpc) < EndOf(InventoryRpc)

\* an inter-service trace whose payments RPC starts after its inventory RPC
C8_Witness ==
    /\ Returned("inter")
    /\ StartOf(PaymentsRpc) > StartOf(InventoryRpc)

\* C10: a single-service trace is one service with three spans: a root of kind
\* server without parent, and a db.query and a cache.lookup span of kind
\* internal whose parent is the root and whose intervals lie within the root's.
C10_SingleServiceShape ==
    Returned("single") =>
        /\ Len(result) = 1
        /\ Len(result[1].spans) = 3
        /\ LET root == result[1].spans[1]
               db == result[1].spans[2]
               cache == result[1].spans[3]
           IN  /\ root.kind = 2 /\ ~HasParent(root)
               /\ EndOf(root) - StartOf(root) >= 30 * NS_PER_MS
               /\ EndOf(root) - StartOf(root) <= 120 * NS_PER_MS
               /\ db.name = "db.query" /\ cache.name = "cache.lookup"
               /\ \A c \in {db, cache} :
                    /\ c.kind = 1
                    /\ HasParent(c) /\ c.parentSpanId = root.spanId
                    /\ Within(c, root)

\* a single-service trace with the shortest root and the latest, longest
\* children
C10_Witness ==
    /\ Returned("single")
    /\ EndOf(result[1].spans[1]) - StartOf(result[1].spans[1]) = 30 * NS_PER_MS
    /\ EndOf(result[1].spans[2]) - StartOf(result[1].spans[1]) = 26 * NS_PER_MS
    /\ EndOf(result[1].spans[3]) - StartOf(result[1].spans[1]) = 26 * NS_PER_MS

----------------------------------------------------------------------------
(* Reading a payload *)

EntrySpans(entry) == entry.scopeSpans[1].spans
EntryService(entry) == entry.resource.attributes[1].value.stringValue
EntryTrace(entry) == EntrySpans(entry)[1].traceId

\* the trace identifiers of a payload, in the order the traces were generated
RECURSIVE TraceOrder(_)
TraceOrder(entries) ==
    IF Len(entries) = 0 THEN <<>>
    ELSE LET rest == TraceOrder(Tail(entries))
             tid == EntryTrace(Head(entries))
         IN  IF Len(rest) > 0 /\ rest[1] = tid THEN rest ELSE <<tid>> \o rest

PayloadTraces == TraceOrder(payload.resourceSpans)

TraceEntries(tid) ==
    {i \in 1..Len(payload.resourceSpans) : EntryTrace(payload.resourceSpans[i]) = tid}

TraceSpans(tid) ==
    UNION {{EntrySpans(payload.resourceSpans[i])[j] :
                j \in 1..Len(EntrySpans(payload.resourceSpans[i]))} :
           i \in TraceEntries(tid)}

PayloadSpanSet == UNION {TraceSpans(PayloadTraces[k]) : k \in 1..Len(PayloadTraces)}

\* the kinds of service of a trace: the service names without the prefix and,
\* for the edge service, without its number
TraceServiceKinds(tid) ==
    {EntryService(payload.resourceSpans[i])[2] : i \in TraceEntries(tid)}

IsErrorTrace(tid) == \E s \in TraceSpans(tid) : ~HasParent(s) /\ HasErrorStatus(s)

\* a payload built in the current cycle, BATCH_INDEX still the index it was
\* built with
InCycle == pc \in {"send", "increment"}

----------------------------------------------------------------------------
(* Claims about build_payload and main(), checked under Spec *)

\* C4: the trace at index idx of the batch with index b is an error trace (its
\* root span has the error status) exactly when (b + idx) mod ERROR_EVERY = 0.
C4_ErrorTraces ==
    InCycle =>
        /\ Len(PayloadTraces) = TRACES_PER_BATCH
        /\ \A idx \in 0..(TRACES_PER_BATCH - 1) :
             IsErrorTrace(PayloadTraces[idx + 1])
                <=> ((BATCH_INDEX + idx) % ERROR_EVERY = 0)

\* ERROR_EVERY = 7, batch 0, 8 traces: the error traces are those at 0 and 7
C4_Witness ==
    /\ InCycle
    /\ ERROR_EVERY = 7 /\ BATCH_INDEX = 0 /\ TRACES_PER_BATCH = 8
    /\ {idx \in 0..7 : IsErrorTrace(PayloadTraces[idx + 1])} = {0, 7}

\* the trace has the inter-service topology: edge, checkout, payments and
\* inventory services, and the worker service exactly when the publish branch
\* was taken (checkout then holds the publish span)
IsInterserviceTrace(tid) ==
    /\ {"edge", "checkout", "payments", "inventory"} \subseteq TraceServiceKinds(tid)
    /\ TraceServiceKinds(tid) \subseteq
         {"edge", "checkout", "payments", "inventory", "worker"}
    /\ ("worker" \in TraceServiceKinds(tid))
         <=> (\E s \in TraceSpans(tid) : s.name = "order.events publish")

AllInterservice ==
    \A k \in 1..Len(PayloadTraces) : IsInterserviceTrace(PayloadTraces[k])

\* C5 as claimed: with INTERSERVICE_RATIO = 1.0 every trace of every payload
\* has the inter-service topology.
C5_RatioOneAllInterservice ==
    (built > 0 /\ INTERSERVICE_RATIO = 1000) => AllInterservice

\* C5 as amended: with INTERSERVICE_RATIO = 1.0 and ENABLE_INTERSERVICE true
\* every trace of every payload has the inter-service topology.
C5_EnabledRatioOneAllInterservice ==
    (built > 0 /\ INTERSERVICE_RATIO = 1000 /\ ENABLE_INTERSERVICE)
        => /\ AllInterservice
           /\ stats.interservice_traces = TRACES_PER_BATCH

\* a payload of eight traces built with ratio 1.0 and the flag set, its traces
\* all inter-service and with a worker service
C5_Witness ==
    /\ built > 0 /\ INTERSERVICE_RATIO = 1000 /\ ENABLE_INTERSERVICE
    /\ Len(PayloadTraces) = 8
    /\ stats.interservice_traces = 8
    /\ \A k \in 1..Len(PayloadTraces) :
         "worker" \in TraceServiceKinds(PayloadTraces[k])

BatchAttr(s) == s.attributes[2]

====
